---- MODULE Spec2Model ----
(***************************************************************************)
(* State-machine model of DESHIFTER (components/DeShifter.py): the         *)
(* constructor, the output-grid policy, the extent snapping and the        *)
(* correct_shifts state machine with its result record.                    *)
(*                                                                         *)
(* Python values are modelled as follows.  None is the empty tuple <<>>.   *)
(* A geotransform is the 6-tuple <<ulx, xgsd, 0, uly, 0, -ygsd>>, so the   *)
(* Python index gt[i] is gt[i+1] here.  A coordinate grid is               *)
(* <<<<x0, x1>>, <<y0, y1>>>>.  A pixel array is a record that names the   *)
(* operation that produced it and that operation's arguments, so that two  *)
(* arrays are equal exactly when they were produced the same way.          *)
(***************************************************************************)
EXTENDS Integers, Sequences, FiniteSets, TLC

\* number of correct_shifts calls made on one engine
MaxCalls == 2

None == <<>>

VARIABLES
    im2shift,            \* the image to be de-shifted (GeoArray, read only)
    coreg_results,       \* COREG.coreg_info (read only)
    kwargs,              \* keyword arguments of the constructor (read only)
    pc,                  \* "new", "ready", "rejected", "done", "failed"
    error,               \* the exception raised last ("" if none)
    shift_prj, shift_gt, GCPList,
    updated_map_info, updated_gt, updated_projection,
    out_grid, out_gsd, clipextent,
    is_shifted, is_resampled, tracked_errors,
    arr_shifted, GeoArray_shifted,
    out_extent,          \* the value _get_out_extent returned last
    path_tmp,            \* temp file of the GDAL_cmd branch: "none", "removed", "absent"
    out_file,            \* what was saved to path_out (NoGeoArray if nothing)
    calls,               \* per call: the branch taken and the collaborators' behaviour
    results              \* per call that returned: the deshift_results record

vars == <<im2shift, coreg_results, kwargs, pc, error, shift_prj, shift_gt, GCPList,
          updated_map_info, updated_gt, updated_projection, out_grid, out_gsd,
          clipextent, is_shifted, is_resampled, tracked_errors, arr_shifted,
          GeoArray_shifted, out_extent, path_tmp, out_file, calls, results>>

----------------------------------------------------------------------------
(* Module constants and collaborators                                      *)

\* _dict_rspAlg_rsp_Int: the names the constructor accepts, with their codes
_dict_rspAlg_rsp_Int ==
    [n \in {"nearest", "bilinear", "cubic", "cubic_spline", "lanczos", "average",
            "mode", "max", "min", "med", "q1", "q2"} |->
        CASE n = "nearest" -> 0 [] n = "bilinear" -> 1 [] n = "cubic" -> 2
          [] n = "cubic_spline" -> 3 [] n = "lanczos" -> 4 [] n = "average" -> 5
          [] n = "mode" -> 6 [] n = "max" -> 7 [] n = "min" -> 8 [] n = "med" -> 9
          [] n = "q1" -> 10 [] n = "q2" -> 11]

\* the warp strategies the constructor accepts
WarpAlgs == {"GDAL_cmd", "GDAL_lib"}

Abs(n) == IF n < 0 THEN -n ELSE n
Max(a, b) == IF a >= b THEN a ELSE b
Min(a, b) == IF a <= b THEN a ELSE b

\* a north-up geotransform
GT(ulx, xgsd, uly, ygsd) == <<ulx, xgsd, 0, uly, 0, -ygsd>>

\* ENVI map info <<projection, 1, 1, ulx, uly, xgsd, ygsd>>
geotransform2mapinfo(gt, prj) == <<prj, 1, 1, gt[1], gt[4], gt[2], Abs(gt[6])>>
mapinfo2geotransform(mi) == <<mi[4], mi[6], 0, mi[5], 0, -mi[7]>>

prj_equal(prj1, prj2) == prj1 = prj2

\* find_nearest(array, value, roundAlg, extrapolate=True) on a two-sample grid:
\* the grid is sorted and extended along its pitch until it covers the value;
\* 'off' returns the grid line at or below the value, 'on' the grid line at or
\* above it (the extent is moved INSIDE the input array).
find_nearest(array, value, roundAlg) ==
    LET lo    == Min(array[1], array[2])
        inc   == Abs(array[2] - array[1])
        below == lo + inc * ((value - lo) \div inc)
    IN  IF roundAlg = "off" \/ below = value THEN below ELSE below + inc

\* is_point_on_grid: the nearest grid line of each axis is the point itself
is_point_on_grid(x, y, xgrid, ygrid) ==
    /\ find_nearest(xgrid, x, "off") = x
    /\ find_nearest(ygrid, y, "off") = y

\* is_coord_grid_equal(gt, xgrid, ygrid)
is_coord_grid_equal(gt, xgrid, ygrid) ==
    /\ is_point_on_grid(gt[1], gt[4], xgrid, ygrid)
    /\ gt[2] = Abs(xgrid[2] - xgrid[1])
    /\ Abs(gt[6]) = Abs(ygrid[2] - ygrid[1])

\* GeoArray attributes of the image
im_xgsd(im) == im.geotransform[2]
im_ygsd(im) == Abs(im.geotransform[6])
\* im2shift.box.boundsMap = (xmin, xmax, ymin, ymax)
boundsMap(im) ==
    <<im.geotransform[1], im.geotransform[1] + im.cols * im_xgsd(im),
      im.geotransform[4] - im.rows * im_ygsd(im), im.geotransform[4]>>
\* im2shift.footprint_poly.bounds = (xmin, ymin, xmax, ymax) of the valid pixels
footprint_bounds(im) ==
    LET b == boundsMap(im)
    IN  <<b[1] + im.inset, b[3] + im.inset, b[2] - im.inset, b[4] - im.inset>>

\* pixel arrays
NoArray == [op |-> "none", gt |-> None, prj |-> "", bounds |-> None, gsd |-> None,
            gcp |-> None, rsp |-> -1, r |-> "", nodata |-> 0]
\* im2shift[:]
SourceArray == [NoArray EXCEPT !.op = "im2shift"]
NoGeoArray == [arr |-> NoArray, gt |-> None, prj |-> ""]
GeoArray(arr, gt, prj) == [arr |-> arr, gt |-> gt, prj |-> prj]

\* GeoArray.get_mapPos(bounds, prj, fillVal): the sub-window, its geotransform and projection
get_mapPos(geoArr, bounds, prj, fillVal) ==
    <<[NoArray EXCEPT !.op = "get_mapPos", !.gt = geoArr.gt, !.prj = geoArr.prj,
                      !.bounds = bounds, !.nodata = fillVal],
      GT(bounds[1], geoArr.gt[2], bounds[4], Abs(geoArr.gt[6])),
      prj>>

\* warp_ndarray(in_arr, gt, prj, out_prj, rspAlg, nodata, out_gsd, out_bounds, gcpList)
warp_ndarray(in_gt, in_prj, out_prj, rsp, nodata, gsd, bounds, gcpList) ==
    <<[op |-> "warp_ndarray", gt |-> in_gt, prj |-> in_prj, bounds |-> bounds,
       gsd |-> gsd, gcp |-> gcpList, rsp |-> rsp, r |-> "", nodata |-> nodata],
      GT(bounds[1], gsd[1], bounds[4], gsd[2]),
      out_prj>>

\* the file gdalwarp writes: read back as array, GetGeoTransform(), GetProjection()
\* (gdalwarp -r <name> -tr <xgsd> <ygsd> -t_srs <prj> -srcnodata -dstnodata -te <extent>)
gdalwarp(r, tr, t_srs, dstnodata, te) ==
    <<[op |-> "gdalwarp", gt |-> None, prj |-> "", bounds |-> te,
       gsd |-> tr, gcp |-> None, rsp |-> -1, r |-> r, nodata |-> dstnodata],
      GT(te[1], tr[1], te[4], tr[2]),
      t_srs>>

----------------------------------------------------------------------------
(* DESHIFTER._grids_alignable and DESHIFTER._get_out_grid                  *)

\* Python's a % b for b # 0: the result has the sign of b
PyMod(a, b) == IF b > 0 THEN a % b ELSE -((-a) % (-b))

\* the pixel sizes are those of the image (positive), the requested ones, or the
\* differences of the reference grid's samples, negative on a descending axis
is_alignable(gsd1, gsd2) == PyMod(Max(gsd1, gsd2), Min(gsd1, gsd2)) = 0

_grids_alignable(in_xgsd, in_ygsd, out_xgsd, out_ygsd) ==
    ~ (~ is_alignable(in_xgsd, out_xgsd) \/ ~ is_alignable(in_ygsd, out_ygsd))

get_grid(gt, xgsd, ygsd) == <<<<gt[1], gt[1] + xgsd>>, <<gt[4], gt[4] - ygsd>>>>

\* The keyword out_gsd is [kind, val]: kind "None", "int" (val = <<s>>),
\* "float" (val = <<s>>) or "tuple" (val = the tuple).
\* The assertions of _get_out_grid: "" when they pass, else the exception.
\* isinstance(out_gsd, (int, tuple, list)) and len(out_gsd) == 2 evaluates
\* len() of an int, which raises TypeError.
_get_out_grid_error(kw) ==
    IF ~ (kw.target_xyGrid = None \/ Len(kw.target_xyGrid) = 2) THEN "AssertionError"
    ELSE IF kw.out_gsd.kind = "None" THEN ""
    ELSE IF kw.out_gsd.kind = "int" THEN "TypeError"
    ELSE IF kw.out_gsd.kind = "tuple" /\ Len(kw.out_gsd.val) = 2 THEN ""
    ELSE "AssertionError"

_get_out_grid(im, coreg, kw) ==
    LET ref_grid == coreg.reference_grid
        ref_gt   == coreg.reference_geotransform
        ref_xgsd == ref_grid[1][2] - ref_grid[1][1]
        ref_ygsd == ref_grid[2][2] - ref_grid[2][1]
        out_xy   == IF kw.out_gsd.kind = "int"
                    THEN <<kw.out_gsd.val[1], kw.out_gsd.val[1]>>
                    ELSE kw.out_gsd.val
    IN  IF kw.target_xyGrid # None THEN kw.target_xyGrid
        ELSE IF kw.out_gsd.kind # "None" THEN
            IF kw.align_grids /\ _grids_alignable(im_xgsd(im), im_ygsd(im), out_xy[1], out_xy[2])
            THEN get_grid(ref_gt, out_xy[1], out_xy[2])
            ELSE get_grid(im.geotransform, out_xy[1], out_xy[2])
        ELSE IF kw.match_gsd THEN
            IF kw.align_grids THEN ref_grid
            ELSE get_grid(im.geotransform, ref_xgsd, ref_ygsd)
        ELSE
            IF kw.align_grids /\ _grids_alignable(im_xgsd(im), im_ygsd(im), ref_xgsd, ref_ygsd)
            THEN get_grid(ref_gt, im_xgsd(im), im_ygsd(im))
            ELSE get_grid(im.geotransform, im_xgsd(im), im_ygsd(im))

\* the exception __init__ raises, "" if none: _get_out_grid runs before the
\* assertions on the algorithm names
init_error(kw) ==
    IF _get_out_grid_error(kw) # "" THEN _get_out_grid_error(kw)
    ELSE IF kw.resamp_alg \notin DOMAIN _dict_rspAlg_rsp_Int
        THEN "AssertionError: not a supported resampling algorithm"
    ELSE IF kw.warp_alg \notin WarpAlgs THEN "AssertionError: warp_alg"
    ELSE ""

----------------------------------------------------------------------------
(* DESHIFTER.__init__                                                      *)

\* self.nodata = kwargs.get('nodata', self.im2shift.nodata)
nodata == IF kwargs.nodata = None THEN im2shift.nodata ELSE kwargs.nodata[1]

DESHIFTER_init ==
    /\ pc = "new"
    /\ IF init_error(kwargs) # ""
       THEN /\ pc' = "rejected"
            /\ error' = init_error(kwargs)
            /\ UNCHANGED <<shift_prj, shift_gt, GCPList, updated_map_info, updated_gt,
                           updated_projection, out_grid, out_gsd, clipextent>>
       ELSE LET mapI == coreg_results.updated_map_info
                grid == _get_out_grid(im2shift, coreg_results, kwargs)
            IN  /\ pc' = "ready"
                /\ error' = ""
                /\ shift_prj' = im2shift.projection
                /\ shift_gt' = im2shift.geotransform
                /\ GCPList' = coreg_results.GCPList
                /\ updated_map_info' =
                       IF mapI # None THEN mapI
                       ELSE geotransform2mapinfo(im2shift.geotransform, im2shift.projection)
                /\ updated_gt' =
                       IF mapI # None THEN mapinfo2geotransform(mapI)
                       ELSE im2shift.geotransform
                /\ updated_projection' = coreg_results.reference_projection
                /\ out_grid' = grid
                /\ out_gsd' = <<Abs(grid[1][2] - grid[1][1]), Abs(grid[2][2] - grid[2][1])>>
                /\ clipextent' = kwargs.clipextent
    /\ is_shifted' = FALSE
    /\ is_resampled' = FALSE
    /\ tracked_errors' = <<>>
    /\ arr_shifted' = NoArray
    /\ GeoArray_shifted' = NoGeoArray
    /\ UNCHANGED <<im2shift, coreg_results, kwargs, out_extent, path_tmp, out_file,
                   calls, results>>

----------------------------------------------------------------------------
(* DESHIFTER._get_out_extent                                               *)

\* the extent before snapping, which is also stored in self.clipextent
_get_out_extent_clipextent(cliptoextent, clipext, im) ==
    IF cliptoextent /\ clipext = None
    THEN footprint_bounds(im)
    ELSE LET b == boundsMap(im) IN <<b[1], b[3], b[2], b[4]>>

\* the snapping with the rounding directions exchanged: the min corners rounded
\* 'off' and the max corners rounded 'on' (what C6_SnapMovesInside excludes)
_get_out_extent_outward(grid, ext) ==
    <<find_nearest(grid[1], ext[1], "off"),
      find_nearest(grid[2], ext[2], "off"),
      find_nearest(grid[1], ext[3], "on"),
      find_nearest(grid[1], ext[4], "on")>>

\* the snapped extent (xmin, ymin, xmax, ymax) that is returned
_get_out_extent(grid, ext) ==
    <<find_nearest(grid[1], ext[1], "on"),
      find_nearest(grid[2], ext[2], "on"),
      find_nearest(grid[1], ext[3], "off"),
      find_nearest(grid[1], ext[4], "off")>>

----------------------------------------------------------------------------
(* DESHIFTER.deshift_results and DESHIFTER.correct_shifts                  *)

deshift_results ==
    [band                 |-> kwargs.band2process,
     is_shifted           |-> is_shifted,
     is_resampled         |-> is_resampled,
     updated_map_info     |-> updated_map_info,
     updated_geotransform |-> shift_gt,
     updated_projection   |-> updated_projection,
     arr_shifted          |-> arr_shifted,
     GeoArray_shifted     |-> GeoArray_shifted]

\* the guard without "and not self.align_grids" (what C1_PathAndFlags excludes)
NoResamplingNeeded_ignoring_align_grids(ref_prj, prj, gt, grid, align_grids) ==
    prj_equal(ref_prj, prj) /\ is_coord_grid_equal(gt, grid[1], grid[2])

\* the guard of the "NO RESAMPLING NEEDED" branch
NoResamplingNeeded(ref_prj, prj, gt, grid, align_grids) ==
    prj_equal(ref_prj, prj) /\ is_coord_grid_equal(gt, grid[1], grid[2]) /\ ~ align_grids

\* correct_shifts can be called on a constructed engine; a call that raised
\* ends the use of the engine
Callable == pc \in {"ready", "done"} /\ Len(calls) < MaxCalls

NoCall == [branch |-> "none", exitcode |-> 0, exists |-> FALSE]

correct_shifts_NoResampling ==
    /\ Callable
    /\ NoResamplingNeeded(coreg_results.reference_projection, shift_prj, shift_gt,
                          out_grid, kwargs.align_grids)
    /\ LET ext     == _get_out_extent_clipextent(kwargs.cliptoextent, clipextent, im2shift)
           snapped == _get_out_extent(out_grid, ext)
           shifted_geoArr == GeoArray(SourceArray, updated_gt, shift_prj)
           clip    == get_mapPos(shifted_geoArr, snapped, shift_prj, nodata)
       IN  /\ is_shifted' = TRUE
           /\ is_resampled' = FALSE
           /\ clipextent' = ext
           /\ out_extent' = snapped
           /\ IF kwargs.cliptoextent
              THEN /\ arr_shifted' = clip[1]
                   /\ updated_gt' = clip[2]
                   /\ updated_projection' = clip[3]
                   /\ updated_map_info' = geotransform2mapinfo(clip[2], clip[3])
              ELSE /\ arr_shifted' = SourceArray
                   /\ UNCHANGED <<updated_gt, updated_projection, updated_map_info>>
           /\ GeoArray_shifted' = GeoArray(arr_shifted', shift_gt, updated_projection')
           /\ out_file' = IF kwargs.path_out # ""
                          THEN GeoArray(arr_shifted', updated_gt', updated_projection')
                          ELSE out_file
    /\ pc' = "done"
    /\ calls' = Append(calls, [NoCall EXCEPT !.branch = "NoResampling"])
    /\ UNCHANGED <<im2shift, coreg_results, kwargs, error, shift_prj, shift_gt, GCPList,
                   out_grid, out_gsd, tracked_errors, path_tmp>>
    /\ results' = Append(results, deshift_results')

\* exit codes of the gdalwarp command
ExitCodes == {0, 1, 2}

correct_shifts_GDAL_cmd ==
    /\ Callable
    /\ ~ NoResamplingNeeded(coreg_results.reference_projection, shift_prj, shift_gt,
                            out_grid, kwargs.align_grids)
    /\ kwargs.warp_alg = "GDAL_cmd"
    /\ \E exitcode \in ExitCodes, exists \in BOOLEAN :
        LET ext     == _get_out_extent_clipextent(kwargs.cliptoextent, clipextent, im2shift)
            snapped == _get_out_extent(out_grid, ext)
            w       == gdalwarp(kwargs.resamp_alg, out_gsd,
                                coreg_results.reference_projection, nodata, snapped)
        IN  /\ clipextent' = ext
            /\ out_extent' = snapped
            /\ calls' = Append(calls, [branch |-> "GDAL_cmd", exitcode |-> exitcode,
                                       exists |-> exists])
            /\ IF exitcode # 1 /\ exists
               THEN /\ shift_gt' = w[2]
                    /\ shift_prj' = w[3]
                    /\ updated_map_info' = geotransform2mapinfo(w[2], w[3])
                    /\ arr_shifted' = w[1]
                    /\ GeoArray_shifted' = GeoArray(w[1], w[2], w[3])
                    /\ is_shifted' = TRUE
                    /\ is_resampled' = TRUE
                    /\ path_tmp' = "removed"
                    /\ pc' = "done"
                    /\ UNCHANGED <<error, tracked_errors>>
               ELSE /\ path_tmp' = IF exists THEN "removed" ELSE "absent"
                    /\ tracked_errors' = Append(tracked_errors, "RuntimeError: Resampling failed.")
                    /\ error' = "RuntimeError: Resampling failed."
                    /\ pc' = "failed"
                    /\ UNCHANGED <<shift_gt, shift_prj, updated_map_info, arr_shifted,
                                   GeoArray_shifted, is_shifted, is_resampled>>
    /\ UNCHANGED <<im2shift, coreg_results, kwargs, GCPList, updated_gt, updated_projection,
                   out_grid, out_gsd, out_file>>
    /\ results' = IF pc' = "done" THEN Append(results, deshift_results') ELSE results

correct_shifts_GDAL_lib ==
    /\ Callable
    /\ ~ NoResamplingNeeded(coreg_results.reference_projection, shift_prj, shift_gt,
                            out_grid, kwargs.align_grids)
    /\ kwargs.warp_alg = "GDAL_lib"
    /\ LET gt      == IF GCPList = None
                      THEN [shift_gt EXCEPT ![1] = updated_gt[1], ![4] = updated_gt[4]]
                      ELSE shift_gt
           ext     == _get_out_extent_clipextent(kwargs.cliptoextent, clipextent, im2shift)
           snapped == _get_out_extent(out_grid, ext)
           w       == warp_ndarray(gt, shift_prj, coreg_results.reference_projection,
                                   _dict_rspAlg_rsp_Int[kwargs.resamp_alg], nodata,
                                   out_gsd, snapped, GCPList)
       IN  /\ clipextent' = ext
           /\ out_extent' = snapped
           /\ updated_projection' = w[3]
           /\ arr_shifted' = w[1]
           /\ updated_map_info' = geotransform2mapinfo(w[2], w[3])
           /\ shift_gt' = mapinfo2geotransform(updated_map_info')
           /\ GeoArray_shifted' = GeoArray(w[1], shift_gt', w[3])
           /\ is_shifted' = TRUE
           /\ is_resampled' = TRUE
           /\ out_file' = IF kwargs.path_out # "" THEN GeoArray(w[1], w[2], w[3]) ELSE out_file
    /\ pc' = "done"
    /\ calls' = Append(calls, [NoCall EXCEPT !.branch = "GDAL_lib"])
    /\ UNCHANGED <<im2shift, coreg_results, kwargs, error, shift_prj, GCPList, updated_gt,
                   out_grid, out_gsd, tracked_errors, path_tmp>>
    /\ results' = Append(results, deshift_results')

correct_shifts ==
    \/ correct_shifts_NoResampling
    \/ correct_shifts_GDAL_cmd
    \/ correct_shifts_GDAL_lib

----------------------------------------------------------------------------
(* The inputs: images, co-registration results and keyword arguments       *)

\* images of 10 x 10 pixels of size 10; the second has its rows off the
\* multiples of 10; the valid pixels fill the image or leave a margin of 5
Images ==
    {[geotransform |-> gt, projection |-> "EPSG:32633", rows |-> 10, cols |-> 10,
      nodata |-> 0, inset |-> d] :
        gt \in {GT(0, 10, 100, 10), GT(0, 10, 103, 10)}, d \in {0, 5}}

\* the reference image has the grid of the first image, or a pixel size of 15
ReferenceGeotransforms == {GT(0, 10, 100, 10), GT(5, 15, 95, 15)}

\* COREG.coreg_info for an image: the updated map info is absent or moves
\* the origin of the image by (+1, +1)
CoregResults(im) ==
    {[GCPList                |-> gcps,
      updated_map_info       |-> mapI,
      original_map_info      |-> geotransform2mapinfo(im.geotransform, im.projection),
      reference_geotransform |-> ref_gt,
      reference_grid         |-> get_grid(ref_gt, ref_gt[2], Abs(ref_gt[6])),
      reference_projection   |-> ref_prj] :
        gcps \in {None, <<"GCP">>},
        mapI \in {None, geotransform2mapinfo(
                            GT(im.geotransform[1] + 1, im_xgsd(im),
                               im.geotransform[4] + 1, im_ygsd(im)), im.projection)},
        ref_gt \in ReferenceGeotransforms,
        ref_prj \in {"EPSG:32633", "EPSG:4326"}}

DefaultKwargs ==
    [path_out |-> "", band2process |-> None, nodata |-> None, out_gsd |-> [kind |-> "None", val |-> None],
     align_grids |-> FALSE, match_gsd |-> FALSE, target_xyGrid |-> None,
     resamp_alg |-> "cubic", warp_alg |-> "GDAL_lib", cliptoextent |-> TRUE,
     clipextent |-> None]

\* every combination of the grid and extent options, with the default names
GridKwargs ==
    {[DefaultKwargs EXCEPT !.target_xyGrid = tg, !.out_gsd = gsd, !.match_gsd = mg,
                           !.align_grids = ag, !.cliptoextent = cte, !.clipextent = ce,
                           !.warp_alg = wa] :
        tg  \in {None, <<<<15, 45>>, <<15, 45>>>>},
        gsd \in {[kind |-> "None", val |-> None], [kind |-> "int", val |-> <<20>>],
                 [kind |-> "tuple", val |-> <<20, 20>>], [kind |-> "tuple", val |-> <<7, 7>>]},
        mg  \in BOOLEAN, ag \in BOOLEAN, cte \in BOOLEAN,
        ce  \in {None, <<5, 5, 95, 95>>},
        wa  \in WarpAlgs}

\* every algorithm name, documented or not, with malformed pixel sizes and an output path
NameKwargs ==
    {[DefaultKwargs EXCEPT !.resamp_alg = ra, !.warp_alg = wa, !.out_gsd = gsd,
                           !.path_out = po, !.nodata = nd] :
        ra  \in {"nearest", "bilinear", "cubic", "cubic_spline", "lanczos", "average", "mode",
                 "max", "min", "med", "q1", "q2", "q3", "gauss"},
        wa  \in WarpAlgs \cup {"GDAL"},
        gsd \in {[kind |-> "None", val |-> None], [kind |-> "float", val |-> <<20>>],
                 [kind |-> "tuple", val |-> <<10, 10, 10>>]},
        po  \in {"", "/out/shifted.bsq"},
        nd  \in {None, <<255>>}}

Init ==
    /\ im2shift \in Images
    /\ coreg_results \in CoregResults(im2shift)
    /\ \/ kwargs \in GridKwargs
       \/ /\ kwargs \in NameKwargs
          /\ im2shift.inset = 0
          /\ coreg_results.GCPList = None
          /\ coreg_results.updated_map_info = None
    /\ pc = "new"
    /\ error = ""
    /\ shift_prj = ""
    /\ shift_gt = None
    /\ GCPList = None
    /\ updated_map_info = None
    /\ updated_gt = None
    /\ updated_projection = ""
    /\ out_grid = None
    /\ out_gsd = None
    /\ clipextent = None
    /\ is_shifted = FALSE
    /\ is_resampled = FALSE
    /\ tracked_errors = <<>>
    /\ arr_shifted = NoArray
    /\ GeoArray_shifted = NoGeoArray
    /\ out_extent = None
    /\ path_tmp = "none"
    /\ out_file = NoGeoArray
    /\ calls = <<>>
    /\ results = <<>>

Next == DESHIFTER_init \/ correct_shifts

Spec == Init /\ [][Next]_vars

----------------------------------------------------------------------------
(* Properties                                                              *)

\* v lies on the grid line sequence of one axis, extended along its pitch
OnGridLine(axis, v) == \E k \in -30..30 : v = axis[1] + k * (axis[2] - axis[1])
Pitch(axis) == Abs(axis[2] - axis[1])

LastCall == calls[Len(calls)]
LastResult == results[Len(results)]
FirstCallReturned == Len(calls) = 1 /\ pc = "done"
NamesSupported ==
    kwargs.resamp_alg \in DOMAIN _dict_rspAlg_rsp_Int /\ kwargs.warp_alg \in WarpAlgs

\* the image's geotransform coincides with the resolved output grid: its origin is
\* on a grid line of each axis and its pixel sizes are the pitches of the grid
GridMatches ==
    /\ OnGridLine(out_grid[1], im2shift.geotransform[1])
    /\ OnGridLine(out_grid[2], im2shift.geotransform[4])
    /\ im2shift.geotransform[2] = Pitch(out_grid[1])
    /\ -im2shift.geotransform[6] = Pitch(out_grid[2])

\* C1: the first correct_shifts call on an engine that returns leaves is_shifted
\* true, and leaves is_resampled false exactly when the reference projection equals
\* the image projection, the image geotransform coincides with the resolved output
\* grid and align_grids is false; otherwise is_resampled is true.
C1_PathAndFlags ==
    FirstCallReturned =>
        /\ is_shifted = TRUE
        /\ (is_resampled = FALSE) <=>
               /\ coreg_results.reference_projection = im2shift.projection
               /\ GridMatches
               /\ ~ kwargs.align_grids
        /\ LastResult.is_shifted = is_shifted
        /\ LastResult.is_resampled = is_resampled

\* a first call that took the no-resampling path although a grid was requested
\* explicitly, and returned
C1_Witness ==
    /\ FirstCallReturned
    /\ LastCall.branch = "NoResampling"
    /\ is_shifted /\ ~ is_resampled
    /\ kwargs.match_gsd
    /\ coreg_results.reference_projection = im2shift.projection

\* C2: when target_xyGrid is supplied the resolved output grid is that value for
\* every value of out_gsd, match_gsd and align_grids, and none of them makes the
\* grid resolution fail.
C2_TargetGridPrecedence ==
    (pc # "new" /\ kwargs.target_xyGrid # None /\ NamesSupported) =>
        /\ pc # "rejected"
        /\ out_grid = kwargs.target_xyGrid

\* the pixel size requested with out_gsd: a scalar s means (s, s)
RequestedGsd ==
    IF kwargs.out_gsd.kind = "tuple" THEN kwargs.out_gsd.val
    ELSE <<kwargs.out_gsd.val[1], kwargs.out_gsd.val[1]>>

\* C3: without target_xyGrid and with out_gsd given as a scalar or as an (x, y)
\* pair, the resolved grid has the requested pixel size on both axes and is
\* anchored at the reference origin if align_grids is set and the native pixel
\* size is alignable with the requested one, else at the image's own origin.
C3_RequestedPixelSize ==
    (/\ pc # "new"
     /\ kwargs.target_xyGrid = None
     /\ kwargs.out_gsd.kind \in {"int", "tuple"}
     /\ Len(kwargs.out_gsd.val) <= 2
     /\ NamesSupported) =>
        LET origin == IF /\ kwargs.align_grids
                         /\ RequestedGsd[1] % im_xgsd(im2shift) = 0
                              \/ im_xgsd(im2shift) % RequestedGsd[1] = 0
                         /\ RequestedGsd[2] % im_ygsd(im2shift) = 0
                              \/ im_ygsd(im2shift) % RequestedGsd[2] = 0
                      THEN coreg_results.reference_geotransform
                      ELSE im2shift.geotransform
        IN  /\ pc # "rejected"
            /\ out_grid = <<<<origin[1], origin[1] + RequestedGsd[1]>>,
                            <<origin[4], origin[4] - RequestedGsd[2]>>>>

\* C4: an explicit clipextent is the extent that is snapped and returned, for
\* either value of cliptoextent; it is not replaced by the footprint bounds or by
\* the bounding box of the image.
C4_ExplicitClipExtentUsed ==
    (Len(calls) >= 1 /\ kwargs.clipextent # None) =>
        /\ clipextent = kwargs.clipextent
        /\ out_extent = _get_out_extent(out_grid, kwargs.clipextent)

\* C5: each coordinate that _get_out_extent returns lies on a grid line of its
\* own axis of the output grid: xmin and xmax on the x axis, ymin and ymax on the
\* y axis.
C5_ExtentOnOwnAxis ==
    Len(calls) >= 1 =>
        /\ OnGridLine(out_grid[1], out_extent[1])
        /\ OnGridLine(out_grid[2], out_extent[2])
        /\ OnGridLine(out_grid[1], out_extent[3])
        /\ OnGridLine(out_grid[2], out_extent[4])

C7_NonZeroExitFails ==
    (/\ Len(calls) = 1
     /\ LastCall.branch = "GDAL_cmd"
     /\ LastCall.exitcode # 0 \/ ~ LastCall.exists) =>
        /\ pc = "failed"
        /\ tracked_errors = <<"RuntimeError: Resampling failed.">>
        /\ error = "RuntimeError: Resampling failed."
        /\ path_tmp # "present"
        /\ ~ is_shifted /\ ~ is_resampled
        /\ arr_shifted = NoArray

\* C8: a second correct_shifts call after a first one that returned, with the
\* collaborators behaving the same, takes the same path and returns an equal
\* result record.
C8_Idempotent ==
    (/\ Len(results) = 2
     /\ calls[1].exitcode = calls[2].exitcode
     /\ calls[1].exists = calls[2].exists) =>
        /\ calls[1].branch = calls[2].branch
        /\ results[1] = results[2]

\* the names the constructor documents
DocumentedRspAlgs ==
    {"nearest", "bilinear", "cubic", "cubic_spline", "lanczos", "average", "mode",
     "max", "min", "med", "q1", "q3"}

\* C9: the constructor accepts a resampling-algorithm name exactly when it is one
\* of the twelve documented names, each with its own code in 0..11, and rejects
\* every warp strategy other than GDAL_cmd and GDAL_lib.
C9_DocumentedNamesAccepted ==
    (pc # "new" /\ _get_out_grid_error(kwargs) = "") =>
        /\ (pc # "rejected") <=>
               (kwargs.resamp_alg \in DocumentedRspAlgs /\ kwargs.warp_alg \in WarpAlgs)
        /\ pc # "rejected" => _dict_rspAlg_rsp_Int[kwargs.resamp_alg] \in 0..11

\* C10: after a first call on the no-resampling path, the record's updated
\* geotransform agrees with its updated map info; without clipping it is the
\* updated geotransform of the co-registration result and the array is the source
\* array, with clipping it is the geotransform the clip returned.
C10_UpdatedGeotransform ==
    (FirstCallReturned /\ LastCall.branch = "NoResampling") =>
        /\ LastResult.updated_geotransform = mapinfo2geotransform(LastResult.updated_map_info)
        /\ ~ kwargs.cliptoextent =>
               /\ LastResult.updated_geotransform =
                      IF coreg_results.updated_map_info # None
                      THEN mapinfo2geotransform(coreg_results.updated_map_info)
                      ELSE im2shift.geotransform
               /\ LastResult.arr_shifted = SourceArray
        /\ kwargs.cliptoextent =>
               LastResult.updated_geotransform =
                   GT(out_extent[1], im_xgsd(im2shift), out_extent[4], im_ygsd(im2shift))

====
